---- MODULE Spec2Model ----
(***************************************************************************)
(* Model of the streaming TOML decoder of package toml2 (toml2/toml.go).   *)
(*                                                                         *)
(* A behaviour is one call of one routine of Decoder on one input: Init    *)
(* draws the input, the routine that is called (entry) and its arguments,  *)
(* and every action is one straight-line segment or one loop iteration of  *)
(* a routine, executed by the frame on top of the call stack.  Runes are   *)
(* code points (integers), strings are sequences of runes.                 *)
(***************************************************************************)
EXTENDS Integers, Sequences, FiniteSets, TLC

VARIABLES
    input,    \* the runes of the underlying reader
    pos,      \* number of runes consumed from the reader so far
    stk,      \* call stack, top frame first: [fn, pc, s, n]
    ret,      \* (value, error) returned by the last routine that returned
    outcome,  \* "running", or how the entry call ended: "ok", "error", "panic"
    entry,    \* the routine that was called
    v,        \* Decode's argument: "value", "nilptr" or "ptr"
    escLen,   \* the argument of a call of parseUnicodeEscapeSequence
    target,   \* what v points to
    target0   \* what v pointed to when the call started

vars == <<input, pos, stk, ret, outcome, entry, v, escLen, target, target0>>

(***************************************************************************)
(* Bounds                                                                  *)
(***************************************************************************)
MaxLen == 4     \* longest input
MaxGrow == 3    \* longest growingString built without consuming input

(***************************************************************************)
(* Runes                                                                   *)
(***************************************************************************)
eof == -1
tab == 9
space == 32
lf == 10
cr == 13

Hash == 35          \* '#'
DQuote == 34        \* '"'
SQuote == 39        \* '\''
Dot == 46           \* '.'
Dash == 45          \* '-'
Slash == 47         \* '/'
Equals == 61        \* '='
LBracket == 91      \* '['
Backslash == 92     \* '\\'
Underscore == 95    \* '_'
Lower_b == 98
Lower_f == 102
Lower_n == 110
Lower_r == 114
Lower_t == 116
Lower_u == 117
Upper_U == 85

\* The runes inputs are built from.
Alphabet == {lf, cr, space, Hash, DQuote, SQuote, Dot, LBracket, Backslash, Lower_b}

RECURSIVE SeqsUpTo(_, _)
SeqsUpTo(S, n) ==
    IF n = 0 THEN {<<>>}
    ELSE LET shorter == SeqsUpTo(S, n - 1)
         IN  shorter \cup {Append(q, x) : q \in {t \in shorter : Len(t) = n - 1}, x \in S}

Inputs == SeqsUpTo(Alphabet, MaxLen)

Min(a, b) == IF a < b THEN a ELSE b

(***************************************************************************)
(* Rune classification                                                     *)
(***************************************************************************)
\* unicode.IsNumber and unicode.IsLetter, on the Latin-1 range.
UnicodeIsNumber(r) == r \in (48..57) \cup {178, 179, 185, 188, 189, 190}

UnicodeIsLetter(r) ==
    r \in (65..90) \cup (97..122) \cup {170, 181, 186}
          \cup (192..214) \cup (216..246) \cup (248..255)

isRuneWhitespace(r) == r = space \/ r = tab

isStartOfKey(r) ==
    \/ r >= 97 /\ r <= 122
    \/ r >= 65 /\ r <= 90
    \/ r >= 48 /\ r <= 57
    \/ r = Dash \/ r = Underscore
    \/ r = SQuote \/ r = DQuote

isDigit(r) == UnicodeIsNumber(r)

isHexDigit(r) ==
    \/ isDigit(r)
    \/ r >= 97 /\ r <= 102
    \/ r >= 65 /\ r <= 70

isAlphanumeric(r) == UnicodeIsLetter(r) \/ r = Underscore

isValidBareKeyChar(r) == isAlphanumeric(r) \/ r = Dash \/ UnicodeIsNumber(r)

(***************************************************************************)
(* The rune reader                                                         *)
(***************************************************************************)
\* reader.PeekRunes(n) with p runes consumed: at most the next n runes, the
\* end of the input shows as the rune eof, after which nothing follows (the
\* callers compare the runes with eof and test for a result of length 1).
PeekRunes(p, n) ==
    LET rest == SubSeq(input, p + 1, Len(input)) \o <<eof>>
    IN  SubSeq(rest, 1, Min(n, Len(rest)))

peekRunes(p, n) == PeekRunes(p, n)

\* Decoder.peek: the next rune, or a panic when the reader has none to give.
peek(p) ==
    LET runes == PeekRunes(p, 1)
    IN  IF Len(runes) # 1
        THEN [panics |-> TRUE, r |-> eof]
        ELSE [panics |-> FALSE, r |-> runes[1]]

\* Decoder.read: ReadRune moves the reader one rune on, then the routine
\* panics; the return statement behind the panic is never executed.
read(p) ==
    [panics |-> TRUE,
     r |-> PeekRunes(p, 1)[1],
     pos |-> Min(p + 1, Len(input))]

(***************************************************************************)
(* Go conversions used by parseUnicodeEscapeSequence                       *)
(***************************************************************************)
\* Value of one ASCII hexadecimal digit, -1 for any other rune.
HexVal(c) ==
    IF c >= 48 /\ c <= 57 THEN c - 48
    ELSE IF c >= 97 /\ c <= 102 THEN c - 87
    ELSE IF c >= 65 /\ c <= 70 THEN c - 55
    ELSE -1

RECURSIVE HexNumber(_)
HexNumber(code) ==
    IF code = <<>> THEN 0
    ELSE 16 * HexNumber(SubSeq(code, 1, Len(code) - 1)) + HexVal(code[Len(code)])

\* strconv.ParseInt(code, 16, bitSize) fails: a syntax error on a rune that is
\* no ASCII hex digit, a range error when the value does not fit in a signed
\* integer of bitSize bits (which takes at least bitSize / 4 digits).
ParseIntFails(code, bitSize) ==
    \/ code = <<>>
    \/ \E i \in 1..Len(code) : HexVal(code[i]) < 0
    \/ 4 * Len(code) >= bitSize /\ HexNumber(code) >= 2 ^ (bitSize - 1)

\* rune(intcode) for the intcode of up to 8 hex digits: the low 32 bits, read
\* as a signed integer.
IntcodeRune(code) ==
    IF Len(code) = 8 /\ HexVal(code[1]) >= 8
    THEN (HexVal(code[1]) - 16) * (16 ^ 7) + HexNumber(Tail(code))
    ELSE HexNumber(code)

\* string(r) for a rune r: the rune itself, U+FFFD when r is no valid
\* Unicode scalar value.
RuneString(r) ==
    IF r < 0 \/ r > 1114111 \/ (r >= 55296 /\ r <= 57343)
    THEN <<65533>>
    ELSE <<r>>

(***************************************************************************)
(* Call stack                                                              *)
(***************************************************************************)
nil == <<>>    \* the nil error; any other error is its message, outermost part first

Frame(fn, n) == [fn |-> fn, pc |-> "entry", s |-> <<>>, n |-> n]

Top == stk[1]
Rest == Tail(stk)

Running(fn) == outcome = "running" /\ stk # <<>> /\ Top.fn = fn

Frozen == UNCHANGED <<input, entry, v, escLen, target0>>

\* The routine on top returns (val, err) with p runes consumed.
Return(p, val, err) ==
    /\ pos' = p
    /\ ret' = [val |-> val, err |-> err]
    /\ stk' = Rest
    /\ outcome' = IF Rest # <<>> THEN outcome
                  ELSE IF err = nil THEN "ok" ELSE "error"

\* The routine on top goes on at label pc with local string s.
Goto(p, pc, s) ==
    /\ pos' = p
    /\ stk' = <<[Top EXCEPT !.pc = pc, !.s = s]>> \o Rest
    /\ UNCHANGED <<ret, outcome>>

\* The routine on top calls fn(n) and will go on at label pc.
Call(p, pc, s, fn, n) ==
    /\ pos' = p
    /\ stk' = <<Frame(fn, n), [Top EXCEPT !.pc = pc, !.s = s]>> \o Rest
    /\ UNCHANGED <<ret, outcome>>

\* A panic unwinds every frame of the call.
Panic(p) ==
    /\ pos' = p
    /\ stk' = <<>>
    /\ outcome' = "panic"
    /\ UNCHANGED ret

(***************************************************************************)
(* Trivia skippers                                                         *)
(***************************************************************************)
\* One iteration of the loop of skipWhitespace.
skipWhitespace ==
    /\ Running("skipWhitespace")
    /\ Frozen /\ UNCHANGED target
    /\ LET pk == peek(pos) IN
       IF pk.panics THEN Panic(pos)
       ELSE IF pk.r = eof THEN Return(pos, <<>>, nil)
       ELSE IF isRuneWhitespace(pk.r)
            THEN LET rd == read(pos) IN
                 IF rd.panics THEN Panic(rd.pos) ELSE Goto(rd.pos, "entry", <<>>)
       ELSE Goto(pos, "entry", <<>>)

\* One iteration of the comment loop of skipWhitespaceAndNewlinesAndComments,
\* followed by the break that ends the outer loop.
CommentLoop ==
    LET runes == peekRunes(pos, 2) IN
    IF Len(runes) = 2 /\ runes[1] = cr /\ runes[2] = lf
    THEN LET rd1 == read(pos) IN
         IF rd1.panics THEN Panic(rd1.pos)
         ELSE LET rd2 == read(rd1.pos) IN
              IF rd2.panics THEN Panic(rd2.pos) ELSE Return(rd2.pos, <<>>, nil)
    ELSE IF Len(runes) = 1 /\ runes[1] = lf
    THEN LET rd == read(pos) IN
         IF rd.panics THEN Panic(rd.pos) ELSE Return(rd.pos, <<>>, nil)
    ELSE IF Len(runes) = 1 /\ runes[1] = eof
    THEN Return(pos, <<>>, nil)
    ELSE Goto(pos, "comment", <<>>)

\* One iteration of the outer loop of skipWhitespaceAndNewlinesAndComments.
TriviaLoop ==
    LET pk == peek(pos) IN
    IF pk.panics THEN Panic(pos)
    ELSE IF pk.r = eof THEN Return(pos, <<>>, nil)
    ELSE IF isRuneWhitespace(pk.r) \/ pk.r = lf
    THEN LET rd == read(pos) IN
         IF rd.panics THEN Panic(rd.pos) ELSE Goto(rd.pos, "entry", <<>>)
    ELSE IF pk.r = cr /\ LET runes == peekRunes(pos, 2)
                         IN  Len(runes) = 2 /\ runes[1] = cr /\ runes[2] = lf
    THEN LET rd1 == read(pos) IN
         IF rd1.panics THEN Panic(rd1.pos)
         ELSE LET rd2 == read(rd1.pos) IN
              IF rd2.panics THEN Panic(rd2.pos) ELSE Goto(rd2.pos, "entry", <<>>)
    ELSE IF pk.r = Hash
    THEN LET rd == read(pos) IN
         IF rd.panics THEN Panic(rd.pos) ELSE Goto(rd.pos, "comment", <<>>)
    ELSE Return(pos, <<>>, nil)

skipWhitespaceAndNewlinesAndComments ==
    /\ Running("skipWhitespaceAndNewlinesAndComments")
    /\ Frozen /\ UNCHANGED target
    /\ IF Top.pc = "comment" THEN CommentLoop ELSE TriviaLoop

(***************************************************************************)
(* String parsers                                                          *)
(***************************************************************************)
\* One iteration of the loop of parseLiteralString.
parseLiteralString ==
    /\ Running("parseLiteralString")
    /\ Frozen /\ UNCHANGED target
    /\ LET pk == peek(pos) IN
       IF pk.panics THEN Panic(pos)
       ELSE IF pk.r = eof THEN Return(pos, <<>>, <<"unfinished literal">>)
       ELSE IF pk.r = SQuote
            THEN LET rd == read(pos) IN
                 IF rd.panics THEN Panic(rd.pos) ELSE Return(rd.pos, Top.s, nil)
       ELSE /\ Len(Top.s) < MaxGrow
            /\ Goto(pos, "entry", Top.s \o RuneString(pk.r))

\* The for loop of parseUnicodeEscapeSequence from the i-th rune of hexRunes
\* on: where it stops, and how.
RECURSIVE HexLoop(_, _, _)
HexLoop(p, hexRunes, i) ==
    IF i > Len(hexRunes) THEN [kind |-> "done", pos |-> p]
    ELSE LET rd == read(p) IN
         IF rd.panics THEN [kind |-> "panic", pos |-> rd.pos]
         ELSE IF ~isHexDigit(hexRunes[i]) THEN [kind |-> "incorrect", pos |-> rd.pos]
         ELSE HexLoop(rd.pos, hexRunes, i + 1)

\* parseUnicodeEscapeSequence(length), the whole routine.
parseUnicodeEscapeSequence ==
    /\ Running("parseUnicodeEscapeSequence")
    /\ Frozen /\ UNCHANGED target
    /\ LET length == Top.n
           hexRunes == peekRunes(pos, length)
       IN
       IF Len(hexRunes) < length \/ hexRunes[length] = eof
       THEN Return(pos, <<>>, <<"unfinished sequence">>)
       ELSE LET loop == HexLoop(pos, hexRunes, 1) IN
            IF loop.kind = "panic" THEN Panic(loop.pos)
            ELSE IF loop.kind = "incorrect"
            THEN Return(loop.pos, <<>>, <<"incorrect character">>)
            ELSE IF ParseIntFails(hexRunes, length * 8)
            THEN Return(loop.pos, <<>>, <<"invalid">>)
            ELSE Return(loop.pos, RuneString(IntcodeRune(hexRunes)), nil)

\* The escape branch of parseQuotedString, the backslash being the next rune.
Escape ==
    LET rd == read(pos) IN
    IF rd.panics THEN Panic(rd.pos)
    ELSE LET pk == peek(rd.pos)
             e == pk.r
         IN
         IF pk.panics THEN Panic(rd.pos)
         ELSE IF e = eof THEN Return(rd.pos, <<>>, <<"unfinished escape sequence">>)
         ELSE IF e = DQuote \/ e = Backslash \/ e = Slash \/ e = Lower_b
         THEN Goto(rd.pos, "entry", Top.s \o RuneString(e))
         ELSE IF e = Lower_b THEN Goto(rd.pos, "entry", Top.s \o <<8>>)
         ELSE IF e = Lower_f THEN Goto(rd.pos, "entry", Top.s \o <<12>>)
         ELSE IF e = Lower_n THEN Goto(rd.pos, "entry", Top.s \o <<10>>)
         ELSE IF e = Lower_r THEN Goto(rd.pos, "entry", Top.s \o <<13>>)
         ELSE IF e = Lower_t THEN Goto(rd.pos, "entry", Top.s \o <<9>>)
         ELSE IF e = Lower_u
         THEN LET rdu == read(rd.pos) IN
              IF rdu.panics THEN Panic(rdu.pos)
              ELSE Call(rdu.pos, "unicode4", Top.s, "parseUnicodeEscapeSequence", 4)
         ELSE IF e = Upper_U
         THEN LET rdu == read(rd.pos) IN
              IF rdu.panics THEN Panic(rdu.pos)
              ELSE Call(rdu.pos, "unicode8", Top.s, "parseUnicodeEscapeSequence", 8)
         ELSE Goto(rd.pos, "entry", Top.s)

\* parseQuotedString: one iteration of its loop, or the return of the
\* unicode escape it called.
parseQuotedString ==
    /\ Running("parseQuotedString")
    /\ Frozen /\ UNCHANGED target
    /\ IF Top.pc = "unicode4" \/ Top.pc = "unicode8"
       THEN IF ret.err # nil
            THEN Return(pos, <<>>,
                        <<IF Top.pc = "unicode4"
                          THEN "invalid 4-char unicode escape sequence"
                          ELSE "invalid 8-char unicode escape sequence">> \o ret.err)
            ELSE Goto(pos, "entry", Top.s \o ret.val)
       ELSE LET pk == peek(pos)
                r == pk.r
            IN
            IF pk.panics THEN Panic(pos)
            ELSE IF r = eof THEN Return(pos, <<>>, <<"unfinished string">>)
            ELSE IF r = DQuote
            THEN LET rd == read(pos) IN
                 IF rd.panics THEN Panic(rd.pos) ELSE Return(rd.pos, Top.s, nil)
            ELSE IF r = Backslash THEN Escape
            ELSE IF 0 <= r /\ r <= 31
            THEN Return(pos, <<>>, <<"unescaped control character">>)
            ELSE LET rd == read(pos) IN
                 IF rd.panics THEN Panic(rd.pos)
                 ELSE Goto(rd.pos, "entry", Top.s \o RuneString(r))

(***************************************************************************)
(* Key parsers                                                             *)
(***************************************************************************)
\* parseSimpleKey: the dispatch on the first rune, one iteration of the bare
\* key loop, or the return of the string parser it called.
parseSimpleKey ==
    /\ Running("parseSimpleKey")
    /\ Frozen /\ UNCHANGED target
    /\ IF Top.pc = "literal"
       THEN IF ret.err # nil
            THEN Return(pos, <<>>, <<"literal key">> \o ret.err)
            ELSE Return(pos, ret.val, nil)
       ELSE IF Top.pc = "quoted"
       THEN IF ret.err # nil
            THEN Return(pos, <<>>, <<"quoted key">> \o ret.err)
            ELSE IF Len(ret.val) = 0
            THEN Return(pos, <<>>, <<"key cannot be empty">>)
            ELSE Return(pos, ret.val, nil)
       ELSE LET pk == peek(pos)
                r == pk.r
            IN
            IF pk.panics THEN Panic(pos)
            ELSE IF Top.pc = "entry" /\ r = SQuote
            THEN LET rd == read(pos) IN
                 IF rd.panics THEN Panic(rd.pos)
                 ELSE Call(rd.pos, "literal", <<>>, "parseLiteralString", 0)
            ELSE IF Top.pc = "entry" /\ r = DQuote
            THEN LET rd == read(pos) IN
                 IF rd.panics THEN Panic(rd.pos)
                 ELSE Call(rd.pos, "quoted", <<>>, "parseQuotedString", 0)
            ELSE IF isValidBareKeyChar(r)
            THEN LET rd == read(pos) IN
                 IF rd.panics THEN Panic(rd.pos)
                 ELSE Goto(rd.pos, "bare", Top.s \o RuneString(r))
            ELSE Return(pos, Top.s, nil)

\* parseDottedKey: the call of parseSimpleKey for the first segment, then one
\* iteration of the loop per step, and the return of each parseSimpleKey.
parseDottedKey ==
    /\ Running("parseDottedKey")
    /\ Frozen /\ UNCHANGED target
    /\ IF Top.pc = "entry"
       THEN Call(pos, "first", <<>>, "parseSimpleKey", 0)
       ELSE IF Top.pc = "first"
       THEN IF ret.err # nil
            THEN Return(pos, <<>>, ret.err)
            ELSE Goto(pos, "loop", ret.val)
       ELSE IF Top.pc = "part"
       THEN IF ret.err # nil
            THEN Return(pos, <<>>, ret.err)
            ELSE Goto(pos, "loop", Top.s \o <<Dot>> \o ret.val)
       ELSE LET pk == peek(pos) IN
            IF pk.panics THEN Panic(pos)
            ELSE IF pk.r # Dot THEN Return(pos, Top.s, nil)
            ELSE LET rd == read(pos) IN
                 IF rd.panics THEN Panic(rd.pos)
                 ELSE Call(rd.pos, "part", Top.s, "parseSimpleKey", 0)

(***************************************************************************)
(* Decode                                                                  *)
(***************************************************************************)
\* What Decode's argument can point to: the keys bound in it.
Targets == {{}, {<<Lower_b>>}}

\* Decode, one segment per step: the argument checks and the call of the
\* trivia skipper, the dispatch on the next rune, and the rest of a
\* key-value line after each call returns.
DecodeBody ==
    IF Top.pc = "entry"
    THEN IF v = "value" THEN Return(pos, <<>>, <<"argument to Decode needs to be a pointer">>)
         ELSE IF v = "nilptr" THEN Return(pos, <<>>, <<"argument to Decode cannot be nil">>)
         ELSE Call(pos, "dispatch", <<>>, "skipWhitespaceAndNewlinesAndComments", 0)
    ELSE IF Top.pc = "dispatch"
    THEN LET pk == peek(pos)
             r == pk.r
         IN
         IF pk.panics THEN Panic(pos)
         ELSE IF r = LBracket THEN Return(pos, <<>>, nil)
         ELSE IF isStartOfKey(r) THEN Call(pos, "key", <<>>, "parseDottedKey", 0)
         ELSE Return(pos, <<>>, <<"unexpected top level character">>)
    ELSE IF Top.pc = "key"
    THEN IF ret.err # nil THEN Return(pos, <<>>, <<"key">> \o ret.err)
         ELSE Call(pos, "separator", ret.val, "skipWhitespace", 0)
    ELSE IF Top.pc = "separator"
    THEN LET pk == peek(pos) IN
         IF pk.panics THEN Panic(pos)
         ELSE IF pk.r # Equals THEN Return(pos, <<>>, <<"key", "expected = after key">>)
         ELSE LET rd == read(pos) IN
              IF rd.panics THEN Panic(rd.pos)
              ELSE Call(rd.pos, "value", Top.s, "skipWhitespace", 0)
    ELSE Return(pos, <<>>, nil)

\* A Decode that empties what v points to before it parses.
DecodeClearsTarget ==
    /\ Running("Decode")
    /\ Frozen
    /\ DecodeBody
    /\ target' = IF Top.pc = "entry" /\ v = "ptr" THEN {} ELSE target

Decode ==
    /\ Running("Decode")
    /\ Frozen
    /\ DecodeBody
    /\ target' = target

(***************************************************************************)
(* Direct calls of the reader primitives                                   *)
(***************************************************************************)
\* A call of Decoder.read.
CallRead ==
    /\ Running("read")
    /\ Frozen /\ UNCHANGED target
    /\ LET rd == read(pos) IN
       IF rd.panics THEN Panic(rd.pos) ELSE Return(rd.pos, <<rd.r>>, nil)

\* A call of Decoder.peek.
CallPeek ==
    /\ Running("peek")
    /\ Frozen /\ UNCHANGED target
    /\ LET pk == peek(pos) IN
       IF pk.panics THEN Panic(pos) ELSE Return(pos, <<pk.r>>, nil)

(***************************************************************************)
(* Specification                                                           *)
(***************************************************************************)
Entries ==
    {"Decode", "parseDottedKey", "parseSimpleKey", "parseLiteralString",
     "parseQuotedString", "parseUnicodeEscapeSequence", "skipWhitespace",
     "skipWhitespaceAndNewlinesAndComments", "read", "peek"}

Init ==
    /\ input \in Inputs
    /\ entry \in Entries
    /\ v \in IF entry = "Decode" THEN {"value", "nilptr", "ptr"} ELSE {"ptr"}
    /\ target0 \in IF entry = "Decode" THEN Targets ELSE {{}}
    /\ target = target0
    /\ pos = 0
    /\ escLen \in IF entry = "parseUnicodeEscapeSequence" THEN {4, 8} ELSE {0}
    /\ stk = <<Frame(entry, escLen)>>
    /\ ret = [val |-> <<>>, err |-> nil]
    /\ outcome = "running"

Next ==
    \/ Decode
    \/ skipWhitespaceAndNewlinesAndComments
    \/ skipWhitespace
    \/ parseDottedKey
    \/ parseSimpleKey
    \/ parseLiteralString
    \/ parseQuotedString
    \/ parseUnicodeEscapeSequence
    \/ CallRead
    \/ CallPeek

Spec == Init /\ [][Next]_vars

(***************************************************************************)
(* Properties                                                              *)
(***************************************************************************)
Done == outcome # "running"

Called(fn) == entry = fn /\ Done

\* C1: a call of Decode ends by returning nil or an error; it never panics.
C1_DecodeNeverPanics ==
    entry = "Decode" => outcome # "panic"

\* C2: read, called while a rune remains, returns that rune and moves the
\* position on by exactly one; peek leaves the position where it was.
C2_ReadSucceedsPeekStays ==
    /\ (Called("read") /\ Len(input) >= 1) =>
           (outcome = "ok" /\ ret.val = <<input[1]>> /\ pos = 1)
    /\ Called("peek") => pos = 0

\* C3: when Decode returns nil the whole input was consumed, and Decode on
\* the empty input returns nil.
C3_SuccessAtEndOfInput ==
    (Called("Decode") /\ v = "ptr") =>
        /\ outcome = "ok" => pos = Len(input)
        /\ input = <<>> => outcome = "ok"

\* C4: when Decode returns an error what v points to is as it was before
\* the call; it differs from that only after Decode consumed the whole input
\* and returned nil.
C4_ErrorLeavesTarget ==
    entry = "Decode" =>
        /\ outcome = "error" => target = target0
        /\ target # target0 => (outcome = "ok" /\ pos = Len(input))

\* C4 witness: Decode, given a pointer to a target that already binds a key,
\* returned an error on a non-empty input.
C4_Witness ==
    /\ Called("Decode") /\ v = "ptr"
    /\ outcome = "error"
    /\ ret.err = <<"unexpected top level character">>
    /\ input # <<>>
    /\ target0 # {}

\* C5: one call of skipWhitespaceAndNewlinesAndComments clears every run of
\* blank lines and comments: it returns, and the next rune is then neither
\* space, tab, LF, '#' nor the CR of a CR-LF pair.
C5_TriviaFixedPoint ==
    Called("skipWhitespaceAndNewlinesAndComments") =>
        /\ outcome = "ok"
        /\ LET runes == PeekRunes(pos, 2) IN
           /\ runes[1] \notin {space, tab, lf, Hash}
           /\ ~(Len(runes) = 2 /\ runes[1] = cr /\ runes[2] = lf)

\* C6: in a basic string a backslash escape consumes the backslash and its
\* escape character and yields the one mapped character; a backslash before
\* a character outside " \ b f n r t u U is an error.
EscapeMap ==
    [e \in {DQuote, Backslash, Lower_b, Lower_f, Lower_n, Lower_r, Lower_t} |->
        CASE e = DQuote -> DQuote
          [] e = Backslash -> Backslash
          [] e = Lower_b -> 8
          [] e = Lower_f -> 12
          [] e = Lower_n -> 10
          [] e = Lower_r -> 13
          [] e = Lower_t -> 9]

C6_EscapeYieldsMappedChar ==
    (Called("parseQuotedString") /\ Len(input) = 3
        /\ input[1] = Backslash /\ input[3] = DQuote) =>
        IF input[2] \in DOMAIN EscapeMap
        THEN outcome = "ok" /\ ret.val = <<EscapeMap[input[2]]>> /\ pos = 3
        ELSE input[2] \notin {Lower_u, Upper_U} => outcome = "error"

\* C7: parseUnicodeEscapeSequence(length) returns the character of the next
\* length hex digits when that is a Unicode scalar value, and an error
\* otherwise: fewer than length runes, a rune that is no ASCII hex digit, a
\* surrogate or a value above 10FFFF.
C7_UnicodeEscape ==
    Called("parseUnicodeEscapeSequence") =>
        LET hexRunes == SubSeq(input, 1, Min(escLen, Len(input)))
            code == HexNumber(hexRunes)
        IN  IF Len(input) < escLen
            THEN outcome = "error" /\ ret.err = <<"unfinished sequence">>
            ELSE IF \E i \in 1..escLen : HexVal(hexRunes[i]) < 0
            THEN outcome = "error" /\ ret.err = <<"incorrect character">>
            ELSE IF code > 1114111 \/ (code >= 55296 /\ code <= 57343)
            THEN outcome = "error"
            ELSE outcome = "ok" /\ ret.val = <<code>> /\ pos = escLen

\* C8: parseDottedKey returns the list of the key's segments: b.b gives the
\* two segments b and b, the quoted '.' gives the one segment ".".
C8_DottedKeySegments ==
    Called("parseDottedKey") =>
        /\ input = <<Lower_b, Dot, Lower_b>> =>
               (outcome = "ok" /\ pos = 3 /\ ret.val = <<(<<Lower_b>>), (<<Lower_b>>)>>)
        /\ input = <<SQuote, Dot, SQuote>> =>
               (outcome = "ok" /\ pos = 3 /\ ret.val = <<(<<Dot>>)>>)

\* C9: parseSimpleKey returns no empty key unless the key is literal-quoted.
C9_NoEmptyBareKey ==
    (Called("parseSimpleKey") /\ outcome = "ok"
        /\ (input = <<>> \/ input[1] # SQuote)) => ret.val # <<>>

\* C10: every iteration of a scanning loop (skipWhitespace, the comment loop,
\* the literal-string body, the basic-string body) consumes a rune or leaves
\* the loop.
InScanLoop ==
    /\ stk # <<>>
    /\ \/ Top.fn = "skipWhitespace"
       \/ Top.fn = "skipWhitespaceAndNewlinesAndComments" /\ Top.pc = "comment"
       \/ Top.fn = "parseLiteralString"
       \/ Top.fn = "parseQuotedString" /\ Top.pc = "entry"

C10_IterationConsumesOrLeaves ==
    [][InScanLoop => \/ pos' > pos
                     \/ Len(stk') # Len(stk)
                     \/ stk'[1].pc # Top.pc]_vars

====
